---- MODULE Spec2Model ----
(***************************************************************************)
(* Model of src/L2Uncertainty/heredity/heredity.py: inference by           *)
(* enumeration over a pedigree (main, powerset, joint_probability, update, *)
(* normalize).                                                             *)
(*                                                                         *)
(* Numbers.  The program computes with Python floats.  The model computes  *)
(* with exact rationals: a number is a record [n |-> N, d |-> D] of two    *)
(* natural numbers written in base 1000 (least significant limb first, no  *)
(* leading zero limb, zero is the empty sequence).  Every constant of      *)
(* PROBS is a decimal with three digits, so sums and products of them are  *)
(* decimals n / 1000^e; Canon keeps such a number in its one shortest      *)
(* form, so two accumulated values are equal exactly when their records   *)
(* are equal.  Quotients (normalize) are compared with RatEq.              *)
(***************************************************************************)
EXTENDS Integers, Sequences, FiniteSets, TLC

\* ------------------------------------------------------------ naturals
RECURSIVE Strip(_)
\* drop the leading (most significant, last) zero limbs
Strip(a) ==
    IF a = <<>> THEN <<>>
    ELSE IF a[Len(a)] = 0 THEN Strip(SubSeq(a, 1, Len(a) - 1))
    ELSE a

Limb(a, i) == IF i <= Len(a) THEN a[i] ELSE 0

RECURSIVE AddFrom(_, _, _, _)
AddFrom(a, b, i, carry) ==
    IF i > Len(a) /\ i > Len(b)
    THEN IF carry = 0 THEN <<>> ELSE <<carry>>
    ELSE LET s == Limb(a, i) + Limb(b, i) + carry
         IN  <<s % 1000>> \o AddFrom(a, b, i + 1, s \div 1000)

BigAdd(a, b) == Strip(AddFrom(a, b, 1, 0))

RECURSIVE SubFrom(_, _, _, _)
\* a - b for a >= b
SubFrom(a, b, i, borrow) ==
    IF i > Len(a) THEN <<>>
    ELSE LET s == a[i] - Limb(b, i) - borrow
         IN  IF s < 0 THEN <<s + 1000>> \o SubFrom(a, b, i + 1, 1)
             ELSE <<s>> \o SubFrom(a, b, i + 1, 0)

BigSub(a, b) == Strip(SubFrom(a, b, 1, 0))

RECURSIVE MulLimbFrom(_, _, _, _)
MulLimbFrom(a, k, i, carry) ==
    IF i > Len(a)
    THEN IF carry = 0 THEN <<>> ELSE <<carry>>
    ELSE LET s == a[i] * k + carry
         IN  <<s % 1000>> \o MulLimbFrom(a, k, i + 1, s \div 1000)

RECURSIVE BigMul(_, _)
BigMul(a, b) ==
    IF a = <<>> \/ b = <<>> THEN <<>>
    ELSE IF b = <<1>> THEN a
    ELSE IF a = <<1>> THEN b
    ELSE IF b[1] = 0 THEN <<0>> \o BigMul(a, Tail(b))
    ELSE IF a[1] = 0 THEN <<0>> \o BigMul(Tail(a), b)
    ELSE IF Len(b) = 1 THEN Strip(MulLimbFrom(a, b[1], 1, 0))
    ELSE BigAdd(Strip(MulLimbFrom(a, b[1], 1, 0)), <<0>> \o BigMul(a, Tail(b)))

BigOne == <<1>>

\* ------------------------------------------------------------ rationals
RECURSIVE Canon(_)
\* cancel the common factors 1000 of numerator and denominator
Canon(r) ==
    IF r.n = <<>> THEN [n |-> <<>>, d |-> BigOne]
    ELSE IF r.n[1] = 0 /\ r.d[1] = 0 THEN Canon([n |-> Tail(r.n), d |-> Tail(r.d)])
    ELSE r

Zero == [n |-> <<>>, d |-> BigOne]
One == [n |-> BigOne, d |-> BigOne]
\* k thousandths, 0 < k < 1000
Milli(k) == [n |-> <<k>>, d |-> <<0, 1>>]

IsZero(a) == a.n = <<>>
RatAdd(a, b) == Canon([n |-> BigAdd(BigMul(a.n, b.d), BigMul(b.n, a.d)), d |-> BigMul(a.d, b.d)])
RatMul(a, b) == Canon([n |-> BigMul(a.n, b.n), d |-> BigMul(a.d, b.d)])
RatSub(a, b) == Canon([n |-> BigSub(BigMul(a.n, b.d), BigMul(b.n, a.d)), d |-> BigMul(a.d, b.d)])
RatDiv(a, b) == Canon([n |-> BigMul(a.n, b.d), d |-> BigMul(a.d, b.n)])
RatEq(a, b) == BigMul(a.n, b.d) = BigMul(b.n, a.d)


\* ------------------------------------------------------------ PROBS
\* PROBS["gene"], PROBS["trait"], PROBS["mutation"]
PROBS ==
    [gene |-> [c \in 0..2 |-> CASE c = 2 -> Milli(10) [] c = 1 -> Milli(30) [] c = 0 -> Milli(960)],
     trait |-> [c \in 0..2 |->
                  CASE c = 2 -> [t \in BOOLEAN |-> IF t THEN Milli(650) ELSE Milli(350)]
                    [] c = 1 -> [t \in BOOLEAN |-> IF t THEN Milli(560) ELSE Milli(440)]
                    [] c = 0 -> [t \in BOOLEAN |-> IF t THEN Milli(10) ELSE Milli(990)]],
     mutation |-> Milli(10)]

\* ------------------------------------------------------------ bounds
MaxPeople == 3
MaxNormPeople == 2
PermPeople == 1

\* ------------------------------------------------------------ state
VARIABLES
    people,         \* load_data's result: person -> [mother, father, trait], in file order
    order,          \* the iteration order of the set names in this run
    probabilities,  \* person -> [gene: 0..2 -> number, trait: BOOLEAN -> number]
    pc,             \* where main stands
    ht_list,        \* what is left of powerset(names) in the have_trait loop
    og_list,        \* what is left of powerset(names) in the one_gene loop
    tg_list,        \* what is left of powerset(names - one_gene) in the two_genes loop
    have_trait, one_gene, two_genes,   \* the loop variables
    p,              \* the last value of joint_probability
    calls           \* history: the hypotheses passed to joint_probability and update

vars == <<people, order, probabilities, pc, ht_list, og_list, tg_list,
          have_trait, one_gene, two_genes, p, calls>>

names == DOMAIN people

\* ------------------------------------------------------------ powerset
RECURSIVE combinations(_, _)
\* itertools.combinations(s, r): the r-subsets of the list s in lexicographic
\* order of their positions
combinations(s, r) ==
    IF r = 0 THEN << {} >>
    ELSE IF Len(s) < r THEN << >>
    ELSE LET with == combinations(Tail(s), r - 1)
         IN  [i \in 1..Len(with) |-> {Head(s)} \cup with[i]] \o combinations(Tail(s), r)

RECURSIVE chain(_, _)
\* the combinations of r, r + 1, ..., len(s) elements, one after the other
chain(s, r) == IF r > Len(s) THEN << >> ELSE combinations(s, r) \o chain(s, r + 1)

\* list(s): the elements of the set s in this run's iteration order
list(ord, s) == SelectSeq(ord, LAMBDA e : e \in s)

\* a plausible slip: range(len(s)) for range(len(s) + 1) loses the full set
powerset_short(ord, s) ==
    LET l == list(ord, s) IN SubSeq(chain(l, 0), 1, Len(chain(l, 0)) - 1)

powerset(ord, s) == chain(list(ord, s), 0)

\* ------------------------------------------------------------ joint_probability
RECURSIVE RatPow(_, _)
\* x multiplied k times into 1: "for _ in ...: entire_joint_probability *= x"
RatPow(x, k) == IF k = 0 THEN One ELSE RatMul(RatPow(x, k - 1), x)

\* line 147: the factor of a person in none of the three sets
factor_none == RatMul(PROBS.gene[0], PROBS.trait[0][FALSE])
\* line 151: the factor of a person in two_genes
factor_two == RatMul(PROBS.gene[2], PROBS.trait[2][TRUE])
\* line 155: the factor of a person in one_gene
factor_one ==
    RatMul(RatAdd(RatMul(RatSub(One, PROBS.mutation), RatSub(One, PROBS.mutation)),
                  RatMul(PROBS.mutation, PROBS.mutation)),
           PROBS.trait[1][FALSE])

\* lines 142-157 as a table: the three loops multiply factor_none, factor_two and
\* factor_one into 1 as often as the sets are large, so the value returned is
\* tabulated by the three sizes
joint_value ==
    [k \in {c \in (0..MaxPeople) \X (0..MaxPeople) \X (0..MaxPeople) : c[1] + c[2] + c[3] <= MaxPeople} |->
        RatMul(RatMul(RatPow(factor_none, k[1]), RatPow(factor_two, k[2])), RatPow(factor_one, k[3]))]

joint_probability(ppl, og, tg, ht) ==
    joint_value[<<Cardinality({child \in DOMAIN ppl : child \notin (og \cup tg \cup ht)}),
                  Cardinality(tg), Cardinality(og)>>]

\* ------------------------------------------------------------ update
\* the values joint_probability returns
JointValues == {joint_value[k] : k \in DOMAIN joint_value}

\* PROBS["gene"][c] + p (lines 173, 181, 191), tabulated over the values of p
gene_plus == [c \in 0..2 |-> [q \in JointValues |-> RatAdd(PROBS.gene[c], q)]]
\* PROBS["trait"][c][sign] + p (line 161), tabulated over the values of p
trait_plus == [c \in 0..2 |-> [t \in BOOLEAN |-> [q \in JointValues |-> RatAdd(PROBS.trait[c][t], q)]]]

update_trait(num_of_copies, logic_sign, q) == trait_plus[num_of_copies][logic_sign][q]

\* lines 173-177, 181-185, 191-195: what update does to one person's row for copy count c
update_row(row, c, in_trait, q) ==
    [gene |-> [row.gene EXCEPT ![c] = gene_plus[c][q]],
     trait |-> [row.trait EXCEPT ![in_trait] = update_trait(c, in_trait, q)]]

update(probs, og, tg, ht, q) ==
    [child \in DOMAIN probs |->
        LET \* lines 171-177
            after1 == IF child \in og THEN update_row(probs[child], 1, child \in ht, q)
                      ELSE probs[child]
            \* lines 179-185
            after2 == IF child \in tg THEN update_row(after1, 2, child \in ht, q)
                      ELSE after1
        \* lines 187-195
        IN  IF child \notin (og \cup tg \cup ht)
            THEN update_row(after2, 0, child \in ht, q)
            ELSE after2]

\* ------------------------------------------------------------ normalize
\* sum(probabilities[child]["gene"].values()), keys 2, 1, 0
Sum3(g) == RatAdd(RatAdd(g[2], g[1]), g[0])
\* sum(probabilities[child]["trait"].values()), keys True, False
Sum2(t) == RatAdd(t[TRUE], t[FALSE])

\* the key of the gene table that the integer idx addresses
gene_key(idx) == idx
\* the key of the trait table that the integer idx addresses: 1 == True, 0 == False
trait_key(idx) == (idx = 1)

\* d[key] /= total
divide_at(d, key, total) == [d EXCEPT ![key] = RatDiv(d[key], total)]

\* a plausible slip: the sum taken anew for every division
divide_gene_running(g, total_gene) ==
    LET again(d, key) == divide_at(d, key, Sum3(d))
    IN  again(again(again(g, gene_key(0)), gene_key(1)), gene_key(2))

\* lines 205-206: for idx in 0, 1, 2: gene[idx] /= total_gene
divide_gene(g, total_gene) ==
    divide_at(divide_at(divide_at(g, gene_key(0), total_gene), gene_key(1), total_gene),
              gene_key(2), total_gene)

\* lines 209-210: for idx in 0, 1: trait[idx] /= total_trait
divide_trait(t, total_trait) ==
    divide_at(divide_at(t, trait_key(0), total_trait), trait_key(1), total_trait)

RECURSIVE normalize_from(_, _)
\* lines 208-210 for the child-th person, its gene table divided already, and the
\* loop from the next person on
normalize_trait(probs, child, total_trait) ==
    IF IsZero(total_trait) THEN [probabilities |-> probs, raised |-> TRUE]
    ELSE normalize_from([probs EXCEPT ![child].trait = divide_trait(@, total_trait)], child + 1)

\* lines 204-206 for the child-th person, and what follows
normalize_gene(probs, child, total_gene) ==
    IF IsZero(total_gene) THEN [probabilities |-> probs, raised |-> TRUE]
    ELSE normalize_trait([probs EXCEPT ![child].gene = divide_gene(@, total_gene)], child,
                         Sum2(probs[child].trait))

\* the loop of normalize from the child-th person on; a division by zero raises
\* ZeroDivisionError and leaves the table as it is at that point
normalize_from(probs, child) ==
    IF child > Len(probs) THEN [probabilities |-> probs, raised |-> FALSE]
    ELSE normalize_gene(probs, child, Sum3(probs[child].gene))

normalize(probs) == normalize_from(probs, 1)

\* ------------------------------------------------------------ main
\* a plausible slip: the truth of the trait tested where "is not None" is meant,
\* so that an observed False counts as unknown
fails_evidence_truthy(ppl, ht) ==
    \E person \in DOMAIN ppl :
        /\ ppl[person].trait = "True"
        /\ person \notin ht

\* a plausible slip: the test "is not None" left out, so that an unknown trait
\* (None) differs from every truth value
fails_evidence_no_none(ppl, ht) ==
    \E person \in DOMAIN ppl :
        \/ ppl[person].trait = "None"
        \/ (ppl[person].trait = "True") # (person \in ht)

\* lines 68-72
fails_evidence(ppl, ht) ==
    \E person \in DOMAIN ppl :
        /\ ppl[person].trait # "None"
        /\ (ppl[person].trait = "True") # (person \in ht)

\* lines 48-61
zero_table(ppl) ==
    [person \in DOMAIN ppl |->
        [gene |-> [c \in 0..2 |-> Zero], trait |-> [t \in BOOLEAN |-> Zero]]]

\* a hypothesis as passed to joint_probability and update
call(og, tg, ht) == [one_gene |-> og, two_genes |-> tg, have_trait |-> ht]

\* the pedigrees load_data may return: up to maxn persons in file order, the
\* persons from the third on either all founders or all children of the first two,
\* every trait "1", "0" or blank
Pedigrees(maxn) ==
    { [i \in 1..c[1] |-> [mother |-> IF c[2] /\ i >= 3 THEN 1 ELSE 0,
                          father |-> IF c[2] /\ i >= 3 THEN 2 ELSE 0,
                          trait |-> c[3][i]]] :
        c \in UNION { UNION { {<<k, f, t>> : t \in [1..k -> {"True", "False", "None"}]} :
                              f \in (IF k >= 3 THEN BOOLEAN ELSE {FALSE}) } : k \in 1..maxn } }

\* the orders in which the set of the n names may iterate: the rotations of the
\* file order and of its reverse (every order of up to three names)
Orders(n) ==
    {[i \in 1..n |-> ((i - 1 + k) % n) + 1] : k \in 0..(n - 1)}
    \cup {[i \in 1..n |-> ((n - i + k) % n) + 1] : k \in 0..(n - 1)}

Init ==
    /\ people \in Pedigrees(MaxPeople)
    /\ order \in Orders(Len(people))
    /\ probabilities = zero_table(people)
    /\ pc = "have_trait"
    /\ ht_list = powerset(order, names)
    /\ og_list = << >>
    /\ tg_list = << >>
    /\ have_trait = {}
    /\ one_gene = {}
    /\ two_genes = {}
    /\ p = Zero
    /\ calls = << >>

\* line 65 and lines 68-74: the next have_trait, skipped when it violates the evidence
NextHaveTrait ==
    /\ pc = "have_trait"
    /\ IF ht_list = << >>
       THEN /\ pc' = "normalize"
            /\ UNCHANGED <<ht_list, og_list, have_trait>>
       ELSE /\ have_trait' = Head(ht_list)
            /\ ht_list' = Tail(ht_list)
            /\ IF fails_evidence(people, Head(ht_list))
               THEN UNCHANGED <<pc, og_list>>
               ELSE /\ pc' = "one_gene"
                    /\ og_list' = powerset(order, names)
    /\ UNCHANGED <<people, order, probabilities, tg_list, one_gene, two_genes, p, calls>>

\* lines 77-78: the next one_gene and the list of the two_genes that go with it
NextOneGene ==
    /\ pc = "one_gene"
    /\ IF og_list = << >>
       THEN /\ pc' = "have_trait"
            /\ UNCHANGED <<og_list, tg_list, one_gene>>
       ELSE /\ one_gene' = Head(og_list)
            /\ og_list' = Tail(og_list)
            /\ tg_list' = powerset(order, names \ Head(og_list))
            /\ pc' = "two_genes"
    /\ UNCHANGED <<people, order, probabilities, ht_list, have_trait, two_genes, p, calls>>

\* lines 78-82: the next two_genes, joint_probability and update
NextTwoGenes ==
    /\ pc = "two_genes"
    /\ IF tg_list = << >>
       THEN /\ pc' = "one_gene"
            /\ UNCHANGED <<tg_list, two_genes, p, probabilities, calls>>
       ELSE /\ two_genes' = Head(tg_list)
            /\ tg_list' = Tail(tg_list)
            /\ p' = joint_probability(people, one_gene, two_genes', have_trait)
            /\ probabilities' = update(probabilities, one_gene, two_genes', have_trait, p')
            /\ calls' = Append(calls, call(one_gene, two_genes', have_trait))
            /\ UNCHANGED pc
    /\ UNCHANGED <<people, order, ht_list, og_list, have_trait, one_gene>>

\* line 85: normalize(probabilities); an uncaught ZeroDivisionError ends the run
Normalize ==
    /\ pc = "normalize"
    /\ LET r == normalize(probabilities)
       IN  /\ probabilities' = r.probabilities
           /\ pc' = IF r.raised THEN "error" ELSE "done"
    /\ UNCHANGED <<people, order, ht_list, og_list, tg_list, have_trait, one_gene, two_genes, p, calls>>

Next == NextHaveTrait \/ NextOneGene \/ NextTwoGenes \/ Normalize

Spec == Init /\ [][Next]_vars

\* ------------------------------------------------------------ normalize alone
\* the whole number k
Whole(k) == IF k = 0 THEN Zero ELSE [n |-> <<k>>, d |-> BigOne]

\* the rows of the tables normalize is handed here: sums of zero in either
\* table, zeros beside non-zeros, and unequal weights
GeneRows == {<<0, 0, 0>>, <<1, 0, 0>>, <<0, 2, 0>>, <<1, 2, 3>>, <<3, 1, 0>>}
TraitRows == {<<0, 0>>, <<1, 0>>, <<0, 2>>, <<1, 3>>}

Rows ==
    {[gene |-> [c \in 0..2 |-> Whole(g[c + 1])],
      trait |-> [t \in BOOLEAN |-> Whole(IF t THEN r[1] ELSE r[2])]] :
        <<g, r>> \in GeneRows \X TraitRows}

founders(n) == [i \in 1..n |-> [mother |-> 0, father |-> 0, trait |-> "None"]]

\* normalize called on a table of up to MaxNormPeople persons
InitNorm ==
    /\ \E n \in 1..MaxNormPeople :
          /\ people = founders(n)
          /\ probabilities \in [1..n -> Rows]
          /\ order = [i \in 1..n |-> i]
    /\ pc = "normalize"
    /\ ht_list = << >>
    /\ og_list = << >>
    /\ tg_list = << >>
    /\ have_trait = {}
    /\ one_gene = {}
    /\ two_genes = {}
    /\ p = Zero
    /\ calls = << >>

NextNorm == Normalize

SpecNorm == InitNorm /\ [][NextNorm]_vars

\* ------------------------------------------------------------ main's loop as a function
Range(f) == {f[i] : i \in DOMAIN f}

RECURSIVE calls_two(_, _, _)
\* line 78: the calls of the two_genes loop for one have_trait and one one_gene
calls_two(tgs, og, ht) ==
    IF tgs = << >> THEN << >>
    ELSE <<call(og, Head(tgs), ht)>> \o calls_two(Tail(tgs), og, ht)

RECURSIVE calls_one(_, _, _, _)
\* line 77: the calls of the one_gene loop for one have_trait
calls_one(ppl, ord, ogs, ht) ==
    IF ogs = << >> THEN << >>
    ELSE calls_two(powerset(ord, DOMAIN ppl \ Head(ogs)), Head(ogs), ht)
         \o calls_one(ppl, ord, Tail(ogs), ht)

RECURSIVE calls_trait(_, _, _)
\* lines 65-74: the calls of the have_trait loop
calls_trait(ppl, ord, hts) ==
    IF hts = << >> THEN << >>
    ELSE (IF fails_evidence(ppl, Head(hts)) THEN << >>
          ELSE calls_one(ppl, ord, powerset(ord, DOMAIN ppl), Head(hts)))
         \o calls_trait(ppl, ord, Tail(hts))

\* lines 64-82: the hypotheses main passes to joint_probability and update, in order
main_calls(ppl, ord) == calls_trait(ppl, ord, powerset(ord, DOMAIN ppl))

RECURSIVE accumulate(_, _, _)
\* lines 81-82 for each hypothesis of the sequence hs, from the table probs on
accumulate(ppl, probs, hs) ==
    IF hs = << >> THEN probs
    ELSE accumulate(ppl,
                    update(probs, Head(hs).one_gene, Head(hs).two_genes, Head(hs).have_trait,
                           joint_probability(ppl, Head(hs).one_gene, Head(hs).two_genes,
                                             Head(hs).have_trait)),
                    Tail(hs))

\* ------------------------------------------------------------ the hypotheses in any order
\* the enumeration of main with its hypotheses taken in an arbitrary order
InitPerm ==
    /\ people \in Pedigrees(PermPeople)
    /\ order = [i \in 1..Len(people) |-> i]
    /\ probabilities = zero_table(people)
    /\ pc = "any_order"
    /\ ht_list = << >>
    /\ og_list = << >>
    /\ tg_list = << >>
    /\ have_trait = {}
    /\ one_gene = {}
    /\ two_genes = {}
    /\ p = Zero
    /\ calls = << >>

\* lines 81-82 for a hypothesis of main that has not had its turn
NextAnyOrder ==
    /\ pc = "any_order"
    /\ \E h \in Range(main_calls(people, order)) \ Range(calls) :
          /\ have_trait' = h.have_trait
          /\ one_gene' = h.one_gene
          /\ two_genes' = h.two_genes
          /\ p' = joint_probability(people, h.one_gene, h.two_genes, h.have_trait)
          /\ probabilities' = update(probabilities, h.one_gene, h.two_genes, h.have_trait, p')
          /\ calls' = Append(calls, h)
    /\ UNCHANGED <<people, order, pc, ht_list, og_list, tg_list>>

\* every hypothesis has had its turn: line 85 is next
EndAnyOrder ==
    /\ pc = "any_order"
    /\ Range(main_calls(people, order)) \subseteq Range(calls)
    /\ pc' = "normalize"
    /\ UNCHANGED <<people, order, probabilities, ht_list, og_list, tg_list,
                   have_trait, one_gene, two_genes, p, calls>>

NextPerm == NextAnyOrder \/ EndAnyOrder \/ Normalize

SpecPerm == InitPerm /\ [][NextPerm]_vars

\* ------------------------------------------------------------ what the claims speak of
called == calls # << >>
\* the hypothesis of the latest call of joint_probability and update; p is its value
last == calls[Len(calls)]

\* the copy count a hypothesis gives a person
copies(h, person) ==
    IF person \in h.two_genes THEN 2 ELSE IF person \in h.one_gene THEN 1 ELSE 0

is_founder(ppl, person) == ppl[person].mother = 0 /\ ppl[person].father = 0

\* the probability that a parent with c copies passes the gene on
transmit(c) ==
    CASE c = 2 -> RatSub(One, PROBS.mutation)
      [] c = 0 -> PROBS.mutation
      [] c = 1 -> Milli(500)

\* the genotype factor of a person with both parents recorded
inherited(c, tm, tf) ==
    CASE c = 0 -> RatMul(RatSub(One, tm), RatSub(One, tf))
      [] c = 2 -> RatMul(tm, tf)
      [] c = 1 -> RatAdd(RatMul(tm, RatSub(One, tf)), RatMul(RatSub(One, tm), tf))

\* the term of one person: genotype factor times trait factor
term(ppl, h, person) ==
    RatMul(IF is_founder(ppl, person) THEN PROBS.gene[copies(h, person)]
           ELSE inherited(copies(h, person),
                          transmit(copies(h, ppl[person].mother)),
                          transmit(copies(h, ppl[person].father))),
           PROBS.trait[copies(h, person)][(person \in h.have_trait)])

RECURSIVE product_from(_, _, _)
\* the product of the terms of the persons from the i-th on
product_from(ppl, h, i) ==
    IF i > Len(ppl) THEN One ELSE RatMul(term(ppl, h, i), product_from(ppl, h, i + 1))

\* C1: a single founder with no observation ends with the gene distribution
\* PROBS["gene"] = {0: 0.96, 1: 0.03, 2: 0.01}.
C1_FounderKeepsPrior ==
    (pc = "done" /\ Len(people) = 1 /\ is_founder(people, 1) /\ people[1].trait = "None")
        => \A c \in 0..2 : RatEq(probabilities[1].gene[c], PROBS.gene[c])

\* C2: every hypothesis that reaches joint_probability and update gives each
\* person of known trait the observed value; persons of unknown trait are free.
C2_EvidenceConsistent ==
    called =>
        \A person \in names :
            /\ people[person].trait = "True" => person \in last.have_trait
            /\ people[person].trait = "False" => person \notin last.have_trait

\* a run with a person observed True, a person observed False and a person not
\* observed has enumerated hypotheses with and without the third in have_trait
C2_Witness ==
    /\ pc = "done"
    /\ \E a, b, c \in names :
          /\ people[a].trait = "True" /\ people[b].trait = "False" /\ people[c].trait = "None"
          /\ \E i, j \in DOMAIN calls : c \in calls[i].have_trait /\ c \notin calls[j].have_trait

\* C3: on a pedigree of founders joint_probability returns the product over all
\* persons of PROBS["gene"][c] * PROBS["trait"][c][t].
C3_FounderProduct ==
    (called /\ \A person \in names : is_founder(people, person))
        => RatEq(p, product_from(people, last, 1))

\* the hypotheses that give every person no copy and no trait, or two copies and the
\* trait: on these the factors of joint_probability for the founders are those of
\* PROBS, so that the value returned differs from the product of the terms only
\* in the genotype factor of the persons with parents
plain(h) ==
    /\ h.one_gene = {}
    /\ h.have_trait = h.two_genes

\* C4: for a person with both parents recorded the genotype factor in the value of
\* joint_probability is (1-tm)(1-tf), tm*tf or tm(1-tf)+(1-tm)tf for 0, 2 or 1
\* copies, tm and tf being 1 - mutation, mutation or 0.5 as the parent has 2, 0 or
\* 1 copies.
C4_ParentConditioned ==
    (called /\ plain(last) /\ \E person \in names : ~is_founder(people, person))
        => RatEq(p, product_from(people, last, 1))

\* C5: update adds p for every person to the gene bucket of the person's copy count
\* and to the trait bucket of the person's trait, and leaves the other buckets alone.
C5_UpdateAdds ==
    [][calls' # calls =>
        \A person \in names :
            /\ \A c \in 0..2 :
                  probabilities'[person].gene[c] =
                      IF c = copies(last', person)
                      THEN RatAdd(probabilities[person].gene[c], p')
                      ELSE probabilities[person].gene[c]
            /\ \A t \in BOOLEAN :
                  probabilities'[person].trait[t] =
                      IF t = (person \in last'.have_trait)
                      THEN RatAdd(probabilities[person].trait[t], p')
                      ELSE probabilities[person].trait[t]]_vars

\* every sum normalize divides by is not zero
sums_not_zero(probs) ==
    \A child \in DOMAIN probs :
        ~IsZero(Sum3(probs[child].gene)) /\ ~IsZero(Sum2(probs[child].trait))

\* the two tables hold the same numbers
same_numbers(a, b) ==
    \A child \in DOMAIN a :
        /\ \A c \in 0..2 : RatEq(a[child].gene[c], b[child].gene[c])
        /\ \A t \in BOOLEAN : RatEq(a[child].trait[t], b[child].trait[t])

\* C6: when no sum is zero normalize returns, and then every gene value is its
\* former value divided by the former sum of the three gene values, every trait
\* value its former value divided by the former sum of the two trait values, and
\* each distribution sums to 1.
C6_NormalizeDivides ==
    [][(pc = "normalize" /\ pc' # "normalize") =>
        /\ sums_not_zero(probabilities) => pc' = "done"
        /\ pc' = "done" =>
              \A child \in DOMAIN probabilities :
                  /\ \A c \in 0..2 :
                        RatEq(probabilities'[child].gene[c],
                              RatDiv(probabilities[child].gene[c], Sum3(probabilities[child].gene)))
                  /\ \A t \in BOOLEAN :
                        RatEq(probabilities'[child].trait[t],
                              RatDiv(probabilities[child].trait[t], Sum2(probabilities[child].trait)))
                  /\ RatEq(Sum3(probabilities'[child].gene), One)
                  /\ RatEq(Sum2(probabilities'[child].trait), One)]_vars

\* normalize has returned on two persons, the second with the weights 1, 2, 3 and
\* 1, 3 now 1/6, 2/6, 3/6 and 1/4, 3/4
C6_Witness ==
    /\ pc = "done"
    /\ Len(probabilities) = 2
    /\ RatEq(probabilities[2].gene[0], [n |-> <<1>>, d |-> <<6>>])
    /\ RatEq(probabilities[2].gene[1], [n |-> <<2>>, d |-> <<6>>])
    /\ RatEq(probabilities[2].gene[2], [n |-> <<3>>, d |-> <<6>>])
    /\ RatEq(probabilities[2].trait[TRUE], [n |-> <<1>>, d |-> <<4>>])
    /\ RatEq(probabilities[2].trait[FALSE], [n |-> <<3>>, d |-> <<4>>])

\* C7: the table after all calls of update is the same in whatever order the
\* hypotheses are taken: it is the table of main's own order.
C7_AnyOrderSameTable ==
    (pc = "normalize" /\ Range(calls) = Range(main_calls(people, order)))
        => probabilities = accumulate(people, zero_table(people), main_calls(people, order))

\* C8: when a gene sum or a trait sum is zero normalize ends in an error and has
\* divided nothing: the table is left as it was handed over.
C8_ZeroSumLeavesTable ==
    [][(pc = "normalize" /\ pc' # "normalize" /\ ~sums_not_zero(probabilities)) =>
        /\ pc' = "error"
        /\ same_numbers(probabilities', probabilities)]_vars

\* the hypotheses that agree with the evidence, one_gene and two_genes disjoint
valid_hypotheses(ppl) ==
    LET persons == DOMAIN ppl
        agreeing == {ht \in SUBSET persons :
                        \A person \in persons :
                            /\ ppl[person].trait = "True" => person \in ht
                            /\ ppl[person].trait = "False" => person \notin ht}
    IN  UNION { UNION { {call(og, tg, ht) : tg \in SUBSET (persons \ og)} :
                        og \in SUBSET persons } : ht \in agreeing }

unknown(ppl) == {person \in DOMAIN ppl : ppl[person].trait = "None"}

\* C9: one_gene and two_genes are disjoint in every call, and when the loop has
\* ended every hypothesis that agrees with the evidence has been passed to
\* joint_probability and update exactly once: 2^u * 3^n calls.
C9_ExhaustiveOnce ==
    /\ called => last.one_gene \cap last.two_genes = {}
    /\ pc = "normalize" =>
          /\ Cardinality(Range(calls)) = Len(calls)
          /\ Range(calls) = valid_hypotheses(people)
          /\ Len(calls) = Cardinality(SUBSET unknown(people)) * Cardinality([names -> 0..2])

\* the loop has ended on three persons, two of them not observed: 4 * 27 calls
C9_Witness ==
    /\ pc = "normalize"
    /\ Len(people) = 3
    /\ Cardinality(unknown(people)) = 2
    /\ Len(calls) = 108

\* C10: when the loop has ended every gene sum and every trait sum of the table is
\* not zero; normalize as called from main never raises.
C10_SumsPositive ==
    /\ pc = "normalize" => sums_not_zero(probabilities)
    /\ pc # "error"

\* the loop has ended on a child of a mother observed True and a father observed False
C10_Witness ==
    /\ pc = "normalize"
    /\ Len(people) = 3
    /\ ~is_founder(people, 3)
    /\ people[1].trait = "True"
    /\ people[2].trait = "False"
    /\ called

====
